---- MODULE Spec2Model ----
(***************************************************************************)
(* State-machine model of the two Ansible modules of stackhpc/drac-facts:  *)
(*   library/drac_facts.py       main() -> get_facts()                     *)
(*   library/drac_bios_facts.py  main() -> get_bios_facts()                *)
(* One behaviour is one invocation of one module's main().  The DRAC       *)
(* client (python-dracclient) and AnsibleModule are external: the client's *)
(* answers are inputs drawn from small sets, fail_json/exit_json are       *)
(* recorded in `emitted` and end the process (they call sys.exit).         *)
(***************************************************************************)
EXTENDS Integers, Sequences, FiniteSets, TLC

\* ------------------------------------------------------------------ bounds
\* Most records a RAID query (controllers, physical disks, virtual disks)
\* answers with.
MaxRecs == 1

\* ---------------------------------------------------------------- universes
Modes == {"drac_facts", "drac_bios_facts"}

SettingNames == {"NumLock", "BootMode"}

\* Jobs of the controller, in the order list_jobs reports them.
JobOrder == <<"JID_1", "JID_2">>

JobIds == {JobOrder[i] : i \in 1..Len(JobOrder)}

\* ------------------------------------------------------------- exceptions
\* An exception is its class and its single argument.
ImportErr == [cls |-> "ImportError", arg |-> "No module named dracclient.client"]

NameErr == [cls |-> "NameError", arg |-> "name 'drac' is not defined"]

AttributeErr == [cls |-> "AttributeError", arg |-> "'dict' object has no attribute '_asdict'"]

\* What a client call can raise: transport and protocol failures.
QueryErrors == {[cls |-> "WSManRequestFailure", arg |-> "connection refused"],
                [cls |-> "DRACOperationFailed", arg |-> "bad response"]}

\* What constructing the client can raise.
ClientErrors == {[cls |-> "TypeError", arg |-> "bad argument"]}

NoExc == [cls |-> "", arg |-> ""]

\* Strings holding an apostrophe: repr() quotes those with double quotes.
WithApostrophe == {NameErr.arg, AttributeErr.arg}

\* repr(s) of a str.
ReprStr(s) == IF s \in WithApostrophe THEN "\"" \o s \o "\"" ELSE "'" \o s \o "'"

\* repr(e) of an exception with one argument (Python >= 3.7 form).
Repr(e) == e.cls \o "(" \o ReprStr(e.arg) \o ")"

\* ", ".join(strs)
RECURSIVE Join(_)
Join(strs) ==
    IF Len(strs) = 0 THEN ""
    ELSE IF Len(strs) = 1 THEN strs[1]
    ELSE strs[1] \o ", " \o Join(Tail(strs))

\* ------------------------------------------------------------ BIOS settings
\* attrs of get_bios_settings.
attrs == {"current_value", "pending_value", "possible_values"}

\* The value a controller record holds under an attribute.
AttrValue(a) ==
    CASE a = "current_value" -> "On"
      [] a = "pending_value" -> "Off"
      [] a = "possible_values" -> <<"On", "Off">>
      [] a = "read_only" -> FALSE

\* The BIOS attribute objects list_bios_settings can hold: each exposes
\* read_only and any subset of the three attributes get_bios_settings reads.
SourceSettings ==
    {[a \in S \cup {"read_only"} |-> AttrValue(a)] : S \in SUBSET attrs}

\* The dicts list_bios_settings can answer with.
BiosSettingsResponses ==
    UNION {[N -> SourceSettings] : N \in SUBSET SettingNames}

\* hasattr(value, attr)
hasattr(value, attr) == attr \in DOMAIN value

\* getattr(value, attr)
getattr(value, attr) == value[attr]

\* A variant that fills an absent attribute with None.
NormalizeSetting_default(value) ==
    [a \in attrs |-> IF hasattr(value, a) THEN getattr(value, a) ELSE "None"]

\* The inner loop of get_bios_settings: the dict built for one setting.
NormalizeSetting(value) ==
    [a \in {x \in attrs : hasattr(value, x)} |-> getattr(value, a)]

\* The conversion loop of get_bios_settings.
get_bios_settings(bios) ==
    [param \in DOMAIN bios |-> NormalizeSetting(bios[param])]

\* ------------------------------------------------------- namedtuple records
\* A record of a list answer: nt says whether it is a namedtuple (has
\* _asdict); fields are its fields.
RawRecord(isnt, id) == [nt |-> isnt, fields |-> [id |-> id]]

\* The lists of at most n records a RAID query can answer with.
RaidLists(n) ==
    UNION {{[i \in 1..k |-> RawRecord(f[i], i)] : f \in [1..k -> BOOLEAN]} : k \in 0..n}

\* The index of the first record that is no namedtuple, 0 when all are.
FirstBad(nts) ==
    IF \A i \in 1..Len(nts) : nts[i].nt THEN 0
    ELSE CHOOSE i \in 1..Len(nts) : ~nts[i].nt /\ \A j \in 1..(i - 1) : nts[j].nt

\* A variant that goes on to the records after the one that failed before
\* it raises.
namedtuples_to_dicts_all(nts) ==
    IF FirstBad(nts) = 0
    THEN [raised |-> FALSE, exc |-> NoExc, attempted |-> Len(nts),
          value |-> [i \in 1..Len(nts) |-> nts[i].fields]]
    ELSE [raised |-> TRUE, exc |-> AttributeErr, attempted |-> Len(nts),
          value |-> <<>>]

\* namedtuples_to_dicts: [dict(nt._asdict()) for nt in nts].  The list
\* comprehension raises at the first record without _asdict; attempted is
\* the number of records it reached.
namedtuples_to_dicts(nts) ==
    IF FirstBad(nts) = 0
    THEN [raised |-> FALSE, exc |-> NoExc, attempted |-> Len(nts),
          value |-> [i \in 1..Len(nts) |-> nts[i].fields]]
    ELSE [raised |-> TRUE, exc |-> AttributeErr, attempted |-> FirstBad(nts),
          value |-> <<>>]

\* ---------------------------------------------------------------- the jobs
\* What list_jobs can find a job to be when first asked.
JobStatus == {"absent", "Running", "Completed"}

\* bmc.list_jobs(only_unfinished) on a controller whose jobs are in state q:
\* the jobs present, or only those not finished.
list_jobs(q, only_unfinished) ==
    LET shown(j) == IF only_unfinished THEN q[j] = "Running"
                    ELSE q[j] \in {"Running", "Completed"}
        ids == SelectSeq(JobOrder, shown)
    IN  [i \in 1..Len(ids) |-> [id |-> ids[i], status |-> q[ids[i]]]]

\* The answers list_jobs can give: the jobs' records, any of them possibly
\* not a namedtuple.
JobAnswers(q, only_unfinished) ==
    LET js == list_jobs(q, only_unfinished)
    IN  {[i \in 1..Len(js) |-> [nt |-> f[i], fields |-> js[i]]] :
            f \in [1..Len(js) -> BOOLEAN]}

\* A variant with the two selectors exchanged.
JobSelectors_swapped == <<TRUE, FALSE>>

\* The selectors of the two get_jobs calls, in call order.
JobSelectors == <<FALSE, TRUE>>

\* The client call a get_jobs call makes.
ListJobsCall(sel) == IF sel THEN "list_jobs(True)" ELSE "list_jobs(False)"

\* ------------------------------------------------------------ the reporter
\* The message of the import check of main().
ImportMsg(errs) ==
    "Import errors: " \o Join([i \in 1..Len(errs) |-> Repr(errs[i])])

\* A variant where both modules use the message of drac_facts.
FailPrefix_same(m) == "Failed to get facts: "

\* The text before %s in the except clause of each module's main().
FailPrefix(m) ==
    IF m = "drac_facts" THEN "Failed to get facts: " ELSE "Failed to get BIOS facts: "

\* fail_json(msg=...)
FailJson(msg) == [call |-> "fail_json", msg |-> msg, kwargs |-> <<>>]

\* exit_json(changed=False, ansible_facts=facts, **facts)
ExitJson(facts) ==
    [call |-> "exit_json", msg |-> "",
     kwargs |-> facts @@ [changed |-> FALSE, ansible_facts |-> facts]]

\* A variant that swallows the exception.
ExceptHandler_swallow(m, e) == <<>>

\* The except clause of main(): the reporter calls it makes for exception e.
ExceptHandler(m, e) == <<FailJson(FailPrefix(m) \o Repr(e))>>

\* A variant that never sees an import error.
ImportFailed_never(errs) == FALSE

\* if IMPORT_ERRORS:
ImportFailed(errs) == Len(errs) > 0

\* A variant where fail_json returns and main() goes on to the try block.
AfterImportFailure_returns == "build_client"

\* fail_json ends the process (sys.exit): nothing of main() runs after it.
AfterImportFailure == "done"

\* ------------------------------------------------------------ control flow
\* A variant that lists the jobs before the RAID configuration.
FullSteps_jobsFirst ==
    <<"build_client", "get_bios_settings", "get_nic_settings",
      "get_jobs_all", "get_jobs_unfinished",
      "list_raid_controllers", "list_physical_disks", "list_virtual_disks",
      "convert_raid", "return">>

\* The steps of get_facts, get_raid_config inlined, in program order.
FullSteps ==
    <<"build_client", "get_bios_settings", "get_nic_settings",
      "list_raid_controllers", "list_physical_disks", "list_virtual_disks",
      "convert_raid", "get_jobs_all", "get_jobs_unfinished", "return">>

\* The steps of get_bios_facts in program order.
BiosSteps ==
    <<"build_client", "get_bios_settings", "get_jobs_all",
      "get_jobs_unfinished", "return">>

Steps(m) == IF m = "drac_facts" THEN FullSteps ELSE BiosSteps

\* The step after step p of module m.
NextStep(m, p) ==
    LET i == CHOOSE k \in 1..Len(Steps(m)) : Steps(m)[k] = p
    IN  Steps(m)[i + 1]

\* ------------------------------------------------------------------- state
VARIABLES
    mode,             \* the module whose main() runs
    IMPORT_ERRORS,    \* the module-level list, filled when the module loads
    pc,               \* the position of main()
    bmc,              \* the client session of get_facts: "none" or "client"
    bios_settings,    \* locals of get_facts / get_bios_facts
    nic_settings,
    controllers,
    pdisks,
    vdisks,
    jobs,
    unfinished_jobs,
    ctl_jobs,         \* the controller's jobs as of the last list_jobs call
    emitted,          \* the calls of fail_json / exit_json, in order
    trace,            \* history: the client calls made, in order
    fail,             \* history: the exception that ended get_facts, if any
    created,          \* history: a job was created between the two list_jobs
    bios_source       \* history: the dict list_bios_settings answered with

locals == <<bios_settings, nic_settings, controllers, pdisks, vdisks, jobs,
            unfinished_jobs>>

vars == <<mode, IMPORT_ERRORS, pc, bmc, bios_settings, nic_settings,
          controllers, pdisks, vdisks, jobs, unfinished_jobs, ctl_jobs,
          emitted, trace, fail, created, bios_source>>

NoFail == [class |-> "none", exc |-> NoExc, at |-> 0, nts |-> <<>>, attempted |-> 0]

Init ==
    /\ mode \in Modes
    /\ IMPORT_ERRORS \in {<<>>, <<ImportErr>>}
    /\ pc = "main"
    /\ bmc = "none"
    /\ bios_settings = <<>>
    /\ nic_settings = <<>>
    /\ controllers = <<>>
    /\ pdisks = <<>>
    /\ vdisks = <<>>
    /\ jobs = <<>>
    /\ unfinished_jobs = <<>>
    /\ ctl_jobs = [j \in JobIds |-> "absent"]
    /\ emitted = <<>>
    /\ trace = <<>>
    /\ fail = NoFail
    /\ created = FALSE
    /\ bios_source = <<>>

\* Exception e leaves get_facts: its locals are gone, the except clause of
\* main() reports, and the process ends.  nts and n describe the conversion
\* that raised, when one did.
Raise(e, class, nts, n) ==
    /\ emitted' = emitted \o ExceptHandler(mode, e)
    /\ fail' = [class |-> class, exc |-> e, at |-> Len(trace'), nts |-> nts,
                attempted |-> n]
    /\ pc' = "done"
    /\ bios_settings' = <<>>
    /\ nic_settings' = <<>>
    /\ controllers' = <<>>
    /\ pdisks' = <<>>
    /\ vdisks' = <<>>
    /\ jobs' = <<>>
    /\ unfinished_jobs' = <<>>

\* main(), the import check.
ImportCheck ==
    /\ pc = "main"
    /\ IF ImportFailed(IMPORT_ERRORS)
       THEN /\ emitted' = Append(emitted, FailJson(ImportMsg(IMPORT_ERRORS)))
            /\ fail' = [NoFail EXCEPT !.class = "import", !.exc = IMPORT_ERRORS[1]]
            /\ pc' = AfterImportFailure
       ELSE /\ pc' = "build_client"
            /\ UNCHANGED <<emitted, fail>>
    /\ UNCHANGED <<mode, IMPORT_ERRORS, bmc, locals, ctl_jobs, trace, created,
                   bios_source>>

\* build_client: drac.DRACClient(address, username, password).  With the
\* import failed the name drac is unbound.
BuildClient ==
    /\ pc = "build_client"
    /\ IF Len(IMPORT_ERRORS) > 0
       THEN /\ trace' = trace
            /\ Raise(NameErr, "session", <<>>, 0)
            /\ bmc' = bmc
       ELSE /\ trace' = Append(trace, "DRACClient")
            /\ \/ /\ \E e \in ClientErrors : Raise(e, "session", <<>>, 0)
                  /\ bmc' = bmc
               \/ /\ bmc' = "client"
                  /\ pc' = NextStep(mode, pc)
                  /\ UNCHANGED <<locals, emitted, fail>>
    /\ UNCHANGED <<mode, IMPORT_ERRORS, ctl_jobs, created, bios_source>>

\* get_bios_settings(bmc)
GetBiosSettings ==
    /\ pc = "get_bios_settings"
    /\ trace' = Append(trace, "list_bios_settings")
    /\ \/ /\ \E e \in QueryErrors : Raise(e, "query", <<>>, 0)
          /\ bios_source' = bios_source
       \/ /\ \E bios \in BiosSettingsResponses :
                /\ bios_settings' = get_bios_settings(bios)
                /\ bios_source' = bios
          /\ pc' = NextStep(mode, pc)
          /\ UNCHANGED <<nic_settings, controllers, pdisks, vdisks, jobs,
                         unfinished_jobs, emitted, fail>>
    /\ UNCHANGED <<mode, IMPORT_ERRORS, bmc, ctl_jobs, created>>

\* What list_nics can answer with.
NicAnswers == {<<>>, <<[id |-> "NIC.Integrated.1-1-1"]>>}

\* get_nic_settings(bmc)
GetNicSettings ==
    /\ pc = "get_nic_settings"
    /\ trace' = Append(trace, "list_nics")
    /\ \/ \E e \in QueryErrors : Raise(e, "query", <<>>, 0)
       \/ /\ \E nics \in NicAnswers : nic_settings' = nics
          /\ pc' = NextStep(mode, pc)
          /\ UNCHANGED <<bios_settings, controllers, pdisks, vdisks, jobs,
                         unfinished_jobs, emitted, fail>>
    /\ UNCHANGED <<mode, IMPORT_ERRORS, bmc, ctl_jobs, created, bios_source>>

\* get_raid_config: controllers = bmc.list_raid_controllers()
ListRaidControllers ==
    /\ pc = "list_raid_controllers"
    /\ trace' = Append(trace, "list_raid_controllers")
    /\ \/ \E e \in QueryErrors : Raise(e, "query", <<>>, 0)
       \/ /\ \E nts \in RaidLists(MaxRecs) : controllers' = nts
          /\ pc' = NextStep(mode, pc)
          /\ UNCHANGED <<bios_settings, nic_settings, pdisks, vdisks, jobs,
                         unfinished_jobs, emitted, fail>>
    /\ UNCHANGED <<mode, IMPORT_ERRORS, bmc, ctl_jobs, created, bios_source>>

\* get_raid_config: pdisks = bmc.list_physical_disks()
ListPhysicalDisks ==
    /\ pc = "list_physical_disks"
    /\ trace' = Append(trace, "list_physical_disks")
    /\ \/ \E e \in QueryErrors : Raise(e, "query", <<>>, 0)
       \/ /\ \E nts \in RaidLists(MaxRecs) : pdisks' = nts
          /\ pc' = NextStep(mode, pc)
          /\ UNCHANGED <<bios_settings, nic_settings, controllers, vdisks, jobs,
                         unfinished_jobs, emitted, fail>>
    /\ UNCHANGED <<mode, IMPORT_ERRORS, bmc, ctl_jobs, created, bios_source>>

\* get_raid_config: vdisks = bmc.list_virtual_disks()
ListVirtualDisks ==
    /\ pc = "list_virtual_disks"
    /\ trace' = Append(trace, "list_virtual_disks")
    /\ \/ \E e \in QueryErrors : Raise(e, "query", <<>>, 0)
       \/ /\ \E nts \in RaidLists(MaxRecs) : vdisks' = nts
          /\ pc' = NextStep(mode, pc)
          /\ UNCHANGED <<bios_settings, nic_settings, controllers, pdisks, jobs,
                         unfinished_jobs, emitted, fail>>
    /\ UNCHANGED <<mode, IMPORT_ERRORS, bmc, ctl_jobs, created, bios_source>>

\* get_raid_config: the three namedtuples_to_dicts conversions, in order.
ConvertRaid ==
    LET c == namedtuples_to_dicts(controllers)
        p == namedtuples_to_dicts(pdisks)
        v == namedtuples_to_dicts(vdisks)
    IN  /\ pc = "convert_raid"
        /\ trace' = trace
        /\ IF c.raised THEN Raise(c.exc, "normalization", controllers, c.attempted)
           ELSE IF p.raised THEN Raise(p.exc, "normalization", pdisks, p.attempted)
           ELSE IF v.raised THEN Raise(v.exc, "normalization", vdisks, v.attempted)
           ELSE /\ controllers' = c.value
                /\ pdisks' = p.value
                /\ vdisks' = v.value
                /\ pc' = NextStep(mode, pc)
                /\ UNCHANGED <<bios_settings, nic_settings, jobs, unfinished_jobs,
                               emitted, fail>>
        /\ UNCHANGED <<mode, IMPORT_ERRORS, bmc, ctl_jobs, created, bios_source>>

\* jobs = get_jobs(bmc, False).  The controller's jobs are first seen here.
GetJobsAll ==
    /\ pc = "get_jobs_all"
    /\ trace' = Append(trace, ListJobsCall(JobSelectors[1]))
    /\ \E q \in [JobIds -> JobStatus] :
        /\ ctl_jobs' = q
        /\ \/ \E e \in QueryErrors : Raise(e, "query", <<>>, 0)
           \/ \E nts \in JobAnswers(q, JobSelectors[1]) :
                LET r == namedtuples_to_dicts(nts)
                IN  IF r.raised THEN Raise(r.exc, "normalization", nts, r.attempted)
                    ELSE /\ jobs' = r.value
                         /\ pc' = NextStep(mode, pc)
                         /\ UNCHANGED <<bios_settings, nic_settings, controllers,
                                        pdisks, vdisks, unfinished_jobs, emitted,
                                        fail>>
    /\ UNCHANGED <<mode, IMPORT_ERRORS, bmc, created, bios_source>>

\* The controller between the two list_jobs calls: a job is created, a
\* running job finishes, or a job is deleted from the queue.
ControllerStep ==
    /\ pc = "get_jobs_unfinished"
    /\ \E j \in JobIds :
        \/ /\ ctl_jobs[j] = "absent"
           /\ ctl_jobs' = [ctl_jobs EXCEPT ![j] = "Running"]
           /\ created' = TRUE
        \/ /\ ctl_jobs[j] = "Running"
           /\ ctl_jobs' = [ctl_jobs EXCEPT ![j] = "Completed"]
           /\ created' = created
        \/ /\ ctl_jobs[j] \in {"Running", "Completed"}
           /\ ctl_jobs' = [ctl_jobs EXCEPT ![j] = "deleted"]
           /\ created' = created
    /\ UNCHANGED <<mode, IMPORT_ERRORS, pc, bmc, locals, emitted, trace, fail,
                   bios_source>>

\* unfinished_jobs = get_jobs(bmc, True)
GetJobsUnfinished ==
    /\ pc = "get_jobs_unfinished"
    /\ trace' = Append(trace, ListJobsCall(JobSelectors[2]))
    /\ \/ \E e \in QueryErrors : Raise(e, "query", <<>>, 0)
       \/ \E nts \in JobAnswers(ctl_jobs, JobSelectors[2]) :
            LET r == namedtuples_to_dicts(nts)
            IN  IF r.raised THEN Raise(r.exc, "normalization", nts, r.attempted)
                ELSE /\ unfinished_jobs' = r.value
                     /\ pc' = NextStep(mode, pc)
                     /\ UNCHANGED <<bios_settings, nic_settings, controllers,
                                    pdisks, vdisks, jobs, emitted, fail>>
    /\ UNCHANGED <<mode, IMPORT_ERRORS, bmc, ctl_jobs, created, bios_source>>

\* A variant that leaves out the families with no record.
FullFacts_dropEmpty ==
    LET all == [drac_bios_settings |-> bios_settings,
                drac_nic_settings |-> nic_settings,
                drac_jobs |-> jobs,
                drac_unfinished_jobs |-> unfinished_jobs,
                drac_raid_controllers |-> controllers,
                drac_physical_disks |-> pdisks,
                drac_virtual_disks |-> vdisks]
    IN  [k \in {x \in DOMAIN all : DOMAIN all[x] # {}} |-> all[k]]

\* The dict get_facts returns.
FullFacts ==
    [drac_bios_settings |-> bios_settings,
     drac_nic_settings |-> nic_settings,
     drac_jobs |-> jobs,
     drac_unfinished_jobs |-> unfinished_jobs,
     drac_raid_controllers |-> controllers,
     drac_physical_disks |-> pdisks,
     drac_virtual_disks |-> vdisks]

\* The dict get_bios_facts returns.
BiosFacts ==
    [drac_bios_settings |-> bios_settings,
     drac_jobs |-> jobs,
     drac_unfinished_jobs |-> unfinished_jobs]

\* get_facts returns and the else clause of main() reports the facts.
ReturnFacts ==
    /\ pc = "return"
    /\ emitted' = Append(emitted,
                         ExitJson(IF mode = "drac_facts" THEN FullFacts ELSE BiosFacts))
    /\ pc' = "done"
    /\ UNCHANGED <<mode, IMPORT_ERRORS, bmc, locals, ctl_jobs, trace, fail, created,
                   bios_source>>

Next ==
    \/ ImportCheck
    \/ BuildClient
    \/ GetBiosSettings
    \/ GetNicSettings
    \/ ListRaidControllers
    \/ ListPhysicalDisks
    \/ ListVirtualDisks
    \/ ConvertRaid
    \/ GetJobsAll
    \/ ControllerStep
    \/ GetJobsUnfinished
    \/ ReturnFacts

Spec == Init /\ [][Next]_vars

\* ================================================================= claims
\* fail_json / exit_json was called.
Reported(call) == \E i \in 1..Len(emitted) : emitted[i].call = call

\* The facts document handed to exit_json.
Doc == emitted[1].kwargs.ansible_facts

\* The message handed to fail_json.
Msg == emitted[1].msg

\* The ids of a list of job dicts.
Ids(js) == {js[i].id : i \in 1..Len(js)}

\* s is a prefix of t.
IsPrefix(s, t) == Len(s) <= Len(t) /\ \A i \in 1..Len(s) : s[i] = t[i]

\* The client calls of a complete run, in the order the claims give.
FullOrder ==
    <<"DRACClient", "list_bios_settings", "list_nics", "list_raid_controllers",
      "list_physical_disks", "list_virtual_disks", "list_jobs(False)",
      "list_jobs(True)">>

BiosOrder ==
    <<"DRACClient", "list_bios_settings", "list_jobs(False)", "list_jobs(True)">>

Order == IF mode = "drac_facts" THEN FullOrder ELSE BiosOrder

\* C1: aggregation is all-or-nothing.  When a client call or a conversion
\* raised, fail_json is the one report and no facts document is emitted; a
\* facts document is emitted only after every call and conversion of the
\* run succeeded.
C1_AllOrNothing ==
    /\ fail.class \in {"session", "query", "normalization"} =>
          /\ Len(emitted) = 1
          /\ emitted[1].call = "fail_json"
          /\ ~Reported("exit_json")
    /\ Reported("exit_json") => fail.class = "none" /\ trace = Order

\* C1: the fifth client call of a full run failed after four succeeded.
C1_Witness ==
    /\ mode = "drac_facts"
    /\ fail.class = "query"
    /\ fail.at = 5
    /\ Reported("fail_json")

\* C2 as stated: the keys of the document are the family names
\* bios_settings, nic_settings, jobs, unfinished_jobs, raid_controllers,
\* physical_disks, virtual_disks (bios_settings, jobs, unfinished_jobs in
\* reduced mode).
C2_Original ==
    Reported("exit_json") =>
        DOMAIN Doc =
            IF mode = "drac_facts"
            THEN {"bios_settings", "nic_settings", "jobs", "unfinished_jobs",
                  "raid_controllers", "physical_disks", "virtual_disks"}
            ELSE {"bios_settings", "jobs", "unfinished_jobs"}

\* C2 amended: the key set of every facts document is fixed by the module
\* and is the family names prefixed with drac_: seven keys from get_facts,
\* three from get_bios_facts, whatever the controller answered; a family
\* with no record is an empty collection under its key.
C2_KeySet ==
    Reported("exit_json") =>
        DOMAIN Doc =
            IF mode = "drac_facts"
            THEN {"drac_bios_settings", "drac_nic_settings", "drac_jobs",
                  "drac_unfinished_jobs", "drac_raid_controllers",
                  "drac_physical_disks", "drac_virtual_disks"}
            ELSE {"drac_bios_settings", "drac_jobs", "drac_unfinished_jobs"}

\* C2: a full document of a controller with no RAID hardware, no NIC, no
\* job and no BIOS setting.
C2_Witness ==
    /\ Reported("exit_json")
    /\ mode = "drac_facts"
    /\ Doc.drac_raid_controllers = <<>>
    /\ Doc.drac_physical_disks = <<>>
    /\ Doc.drac_virtual_disks = <<>>
    /\ Doc.drac_jobs = <<>>
    /\ Doc.drac_nic_settings = <<>>
    /\ DOMAIN Doc.drac_bios_settings = {}

\* get_bios_settings has returned and get_facts is still running or has
\* returned (its locals are alive).
SettingsDone ==
    /\ \E i \in 1..Len(trace) : trace[i] = "list_bios_settings"
    /\ fail.class = "none"

\* C3: get_bios_settings yields one record per source setting name, and
\* each of current_value, pending_value, possible_values is in the record
\* iff the source record exposes it, with the source's value; converting
\* the settings never raises.
C3_SettingsIff ==
    /\ SettingsDone =>
          /\ DOMAIN bios_settings = DOMAIN bios_source
          /\ \A p \in DOMAIN bios_settings :
                \A a \in {"current_value", "pending_value", "possible_values"} :
                    /\ (a \in DOMAIN bios_settings[p]) <=> (a \in DOMAIN bios_source[p])
                    /\ (a \in DOMAIN bios_source[p]) =>
                            bios_settings[p][a] = bios_source[p][a]
    /\ fail.class = "normalization" => trace[fail.at] # "list_bios_settings"

\* C3: one setting exposes only current_value, the other all three.
C3_Witness ==
    /\ pc = "get_jobs_all"
    /\ DOMAIN bios_source = {"NumLock", "BootMode"}
    /\ DOMAIN bios_source["NumLock"] = {"current_value", "read_only"}
    /\ DOMAIN bios_settings["NumLock"] = {"current_value"}
    /\ DOMAIN bios_settings["BootMode"] =
            {"current_value", "pending_value", "possible_values"}

\* C4 as stated: in every facts document the ids of unfinished_jobs are
\* among the ids of jobs, whatever the controller does between the calls.
C4_Original ==
    Reported("exit_json") => Ids(Doc.drac_unfinished_jobs) \subseteq Ids(Doc.drac_jobs)

\* C4 amended: the ids of unfinished_jobs are among the ids of jobs in
\* every facts document of a run in which no job was created on the
\* controller between the two list_jobs calls (jobs finishing or being
\* deleted between the calls keep it).
C4_SubsetUnlessCreated ==
    (Reported("exit_json") /\ ~created) =>
        Ids(Doc.drac_unfinished_jobs) \subseteq Ids(Doc.drac_jobs)

\* C4: a job that was running at the first call finished before the second,
\* another is still running.
C4_Witness ==
    /\ Reported("exit_json")
    /\ ~created
    /\ Ids(Doc.drac_unfinished_jobs) # {}
    /\ \E i \in 1..Len(Doc.drac_jobs) :
            /\ Doc.drac_jobs[i].status = "Running"
            /\ Doc.drac_jobs[i].id \notin Ids(Doc.drac_unfinished_jobs)

\* C5: the client calls of a run are made one after another in the fixed
\* order of its module, the client is built before the first query, and
\* drac_bios_facts makes no NIC or RAID call.
C5_QueryOrder ==
    /\ IsPrefix(trace, Order)
    /\ Len(trace) >= 2 => bmc = "client"

\* C5: a full run made all its calls.
C5_Witness ==
    /\ mode = "drac_facts"
    /\ trace = FullOrder
    /\ Reported("exit_json")

\* C6: with an import error recorded, main() reports Failure with the
\* import diagnostic, never reaches build_client and makes no client call.
C6_ImportFatal ==
    Len(IMPORT_ERRORS) > 0 =>
        /\ pc \in {"main", "done"}
        /\ bmc = "none"
        /\ trace = <<>>
        /\ pc = "done" =>
              emitted = <<FailJson(
                  "Import errors: ImportError('No module named dracclient.client')")>>

\* C6: the run with an import error has ended.
C6_Witness == Len(IMPORT_ERRORS) > 0 /\ pc = "done" /\ Reported("fail_json")

\* The texts a failure message can carry after its prefix.
CauseTexts ==
    {Repr(e) : e \in QueryErrors \cup ClientErrors \cup {ImportErr, NameErr, AttributeErr}}

\* msg is prefix p followed by a cause text.
StartsWith(msg, p) == \E c \in CauseTexts : msg = p \o c

\* The prefix under which main() of module m reports a failure of a class:
\* the import check reports import failures, the except clause the rest.
ClassPrefix(m, class) ==
    IF class = "import" THEN "Import errors: "
    ELSE IF m = "drac_facts" THEN "Failed to get facts: "
    ELSE "Failed to get BIOS facts: "

\* C7 as stated: the prefix of a failure message tells the three classes
\* import/setup, controller-query and normalization apart: the message of
\* one class never starts with the prefix another class is reported under.
C7_Original ==
    Reported("fail_json") =>
        \A c \in {"import", "query", "normalization"} \ {fail.class} :
            ~StartsWith(Msg, ClassPrefix(mode, c))

\* C7 amended: a failure message is a fixed prefix followed by repr of the
\* cause: "Import errors: " for an import failure and "Failed to get
\* facts: " ("Failed to get BIOS facts: " in drac_bios_facts) for every
\* other failure, so the prefix tells an import failure from the rest but
\* not a query failure from a normalization failure; the same failure
\* always gives the same message.
C7_MessageFormat ==
    Reported("fail_json") =>
        Msg = (IF fail.class = "import" THEN "Import errors: "
               ELSE IF mode = "drac_facts" THEN "Failed to get facts: "
               ELSE "Failed to get BIOS facts: ") \o Repr(fail.exc)

\* C7: drac_bios_facts reported a normalization failure.
C7_Witness ==
    /\ mode = "drac_bios_facts"
    /\ fail.class = "normalization"
    /\ Reported("fail_json")

\* C8 as stated: after a normalization failure on one record every record
\* of the collection has still been processed.
C8_Original ==
    fail.class = "normalization" => fail.attempted = Len(fail.nts)

\* C8 amended: a normalization failure on one record ends the conversion
\* of its collection at that record: the records before it were converted,
\* the records after it are not processed, and the run ends in Failure.
C8_StopsAtFirstBad ==
    fail.class = "normalization" =>
        /\ fail.attempted \in 1..Len(fail.nts)
        /\ ~fail.nts[fail.attempted].nt
        /\ \A i \in 1..(fail.attempted - 1) : fail.nts[i].nt
        /\ pc = "done"
        /\ Reported("fail_json")

\* C8: the first of two job records failed to convert, the second was
\* never reached.
C8_Witness ==
    /\ fail.class = "normalization"
    /\ Len(fail.nts) = 2
    /\ fail.attempted = 1

\* C9: every entry of drac_bios_settings in a facts document holds at
\* least the item current_value.
C9_CurrentValue ==
    Reported("exit_json") =>
        \A p \in DOMAIN Doc.drac_bios_settings :
            "current_value" \in DOMAIN Doc.drac_bios_settings[p]

\* C10: no client call is made twice, no call follows the first failure,
\* and a run ends with exactly one report, fail_json or exit_json, made
\* once.
C10_NoRetryOneOutcome ==
    /\ \A i, j \in 1..Len(trace) : trace[i] = trace[j] => i = j
    /\ Len(emitted) <= 1
    /\ (pc = "done") <=> (Len(emitted) = 1)
    /\ fail.class \in {"session", "query", "normalization"} =>
            pc = "done" /\ Len(trace) = fail.at
    /\ fail.class = "import" => pc = "done" /\ trace = <<>>

\* C10: the third client call failed and the run ended with one report.
C10_Witness ==
    /\ fail.class = "query"
    /\ fail.at = 3
    /\ pc = "done"
    /\ Len(emitted) = 1
    /\ emitted[1].call = "fail_json"

====
